---- MODULE Spec2Model ----
(***************************************************************************)
(* A model of kilo-rs (src/src/lib.rs): the key decoder, the row store,    *)
(* the cursor/viewport engine and the editor loop of Kilo::run.            *)
(*                                                                         *)
(* Four specifications share the variables:                                *)
(*   Spec     run() from enable_raw_mode to the drop of the editor:        *)
(*            init_editor, editor_open, then editor_refresh_screen /       *)
(*            editor_process_keypress in turn, clear_screen, and the drop  *)
(*            of the editor on every way out;                              *)
(*   SpecFair Spec where run(), once out of the loop, goes on to its end;  *)
(*   SpecKey  one call of editor_read_key, one terminal read at a time;    *)
(*   SpecRow  editor_append_row and editor_row_cx_to_rx on arbitrary rows. *)
(***************************************************************************)
EXTENDS Integers, Sequences, FiniteSets, TLC

VARIABLES
    pc,          \* position in run(): "start", "init", "open", "refresh", ...
    build,       \* "any" until an arithmetic overflow happened, then the
                 \* build it showed: "release" (wrapped) or "debug" (panicked)
    cx, cy, rx, rowoff, coloff, screenrows, screencols, rows,   \* fields of Kilo
    filename, statusmsg, statusmsg_time,                        \* fields of Kilo
    rk,          \* editor_read_key: position, locals c and seq, return value
    input,       \* outcomes of the terminal reads of the current/last call
    now,         \* the monotonic clock, in units of the message lifetime (5 s)
    termios,     \* the terminal attributes in force: "orig" or "raw"
    restores,    \* calls of disable_raw_mode so far
    stderr,      \* the lines written to the error stream
    stdout,      \* what the last step wrote to the terminal
    winsize      \* the terminal's answers to the last get_window_size

kilo == <<cx, cy, rx, rowoff, coloff, screenrows, screencols, rows,
          filename, statusmsg, statusmsg_time>>
tty == <<termios, restores, stderr>>
world == <<now, termios, restores, stderr, stdout, winsize>>
vars == <<pc, build, cx, cy, rx, rowoff, coloff, screenrows, screencols, rows,
          filename, statusmsg, statusmsg_time, rk, input,
          now, termios, restores, stderr, stdout, winsize>>

----------------------------------------------------------------------------
(* Bounds of the model. *)

\* Interrupted outcomes the terminal may deliver during one editor_read_key.
MaxIntr == 2

\* Lines of the file handed to editor_open.
MaxRows == 3

\* Length of a row in SpecRow.
MaxLen == 5

\* Terminal sizes get_window_size may report: 0..MaxWinRows by 0..MaxWinCols.
MaxWinRows == 4
MaxWinCols == 3

\* The cursor row is not followed past MaxCy (it grows without limit once
\* screenrows is 0, see editor_process_keypress).
MaxCy == 5

\* usize arithmetic wraps at 2^64 on the supported targets.  TLC's integers
\* are 32 bits wide, so the model wraps at UsizeModulus: every value the
\* model reaches lies within a few units of 0 or of the modulus, where the
\* order and the arithmetic are those of the 64-bit word.
UsizeModulus == 1048576

----------------------------------------------------------------------------
(* Characters and bytes. *)

\* `ch as u8` for the characters the source names ("ESC" is '\x1b').
ord(ch) ==
    CASE ch = "ESC" -> 27
      [] ch = "[" -> 91
      [] ch = "O" -> 79
      [] ch = "~" -> 126
      [] ch = "0" -> 48
      [] ch = "1" -> 49
      [] ch = "2" -> 50
      [] ch = "3" -> 51
      [] ch = "4" -> 52
      [] ch = "5" -> 53
      [] ch = "6" -> 54
      [] ch = "7" -> 55
      [] ch = "8" -> 56
      [] ch = "9" -> 57
      [] ch = "A" -> 65
      [] ch = "B" -> 66
      [] ch = "C" -> 67
      [] ch = "D" -> 68
      [] ch = "F" -> 70
      [] ch = "H" -> 72
      [] ch = "q" -> 113
      [] ch = "E" -> 69
      [] ch = "/" -> 47
      [] ch = ":" -> 58

\* ctrl_key(k): (k as u8) & 0x1f, the low five bits.
ctrl_key(k) == ord(k) % 32

----------------------------------------------------------------------------
(* EditorKey and io::Result<EditorKey>. *)

Key(name) == [k |-> name, c |-> 0]
Char(b) == [k |-> "Char", c |-> b]

OkKey(key) == [tag |-> "Ok", key |-> key, err |-> "-"]
ErrKind(kind) == [tag |-> "Err", key |-> Key("-"), err |-> kind]
NoReturn == [tag |-> "-", key |-> Key("-"), err |-> "-"]

----------------------------------------------------------------------------
(* The terminal's answer to one io::stdin().read(&mut buf[..1]).           *)
(*   Got(b)       Ok(1), the byte b stored                                 *)
(*   Timeout      Ok(0): VMIN = 0, VTIME = 1 and no byte within 100 ms     *)
(*   Interrupted  Err of kind ErrorKind::Interrupted                       *)
(*   Failed       Err of any other kind                                    *)

Got(b) == [tag |-> "byte", b |-> b]
Timeout == [tag |-> "none", b |-> 0]
Interrupted == [tag |-> "Interrupted", b |-> 0]
Failed == [tag |-> "Other", b |-> 0]

IsErr(o) == o.tag \in {"Interrupted", "Other"}

----------------------------------------------------------------------------
(* editor_read_key, one read at a time.  The decoder's state is its        *)
(* position (at), its locals (c = buffer[0], seq) and its return value.    *)

rk_entry == [at |-> "first", c |-> 0, seq |-> <<0, 0, 0>>, ret |-> NoReturn]

rk_return(st, r) == [st EXCEPT !.at = "ret", !.ret = r]

\* match_tilde with the arms of '5' and '6' exchanged.
match_tilde_swapped(d, c) ==
    CASE d = ord("1") -> OkKey(Key("HomeKey"))
      [] d = ord("3") -> OkKey(Key("DelKey"))
      [] d = ord("4") -> OkKey(Key("EndKey"))
      [] d = ord("5") -> OkKey(Key("PageDown"))
      [] d = ord("6") -> OkKey(Key("PageUp"))
      [] d = ord("7") -> OkKey(Key("HomeKey"))
      [] d = ord("8") -> OkKey(Key("EndKey"))
      [] OTHER -> OkKey(Char(c))

\* match seq[1] after ESC [ <digit> ~
match_tilde(d, c) ==
    CASE d = ord("1") -> OkKey(Key("HomeKey"))
      [] d = ord("3") -> OkKey(Key("DelKey"))
      [] d = ord("4") -> OkKey(Key("EndKey"))
      [] d = ord("5") -> OkKey(Key("PageUp"))
      [] d = ord("6") -> OkKey(Key("PageDown"))
      [] d = ord("7") -> OkKey(Key("HomeKey"))
      [] d = ord("8") -> OkKey(Key("EndKey"))
      [] OTHER -> OkKey(Char(c))

\* match seq[1] after ESC [
match_bracket(l, c) ==
    CASE l = ord("A") -> OkKey(Key("ArrowUp"))
      [] l = ord("B") -> OkKey(Key("ArrowDown"))
      [] l = ord("C") -> OkKey(Key("ArrowRight"))
      [] l = ord("D") -> OkKey(Key("ArrowLeft"))
      [] l = ord("H") -> OkKey(Key("HomeKey"))
      [] l = ord("F") -> OkKey(Key("EndKey"))
      [] OTHER -> OkKey(Char(c))

\* match seq[1] after ESC O
match_O(l, c) ==
    CASE l = ord("H") -> OkKey(Key("HomeKey"))
      [] l = ord("F") -> OkKey(Key("EndKey"))
      [] OTHER -> OkKey(Char(c))

\* The first read: `while let Err(e) = read(..)` retries Interrupted, returns
\* any other error, and leaves the loop on every Ok(n), n = 0 included, with
\* buffer[0] still 0 when nothing was stored.
read_first(st, o) ==
    IF o.tag = "Interrupted" THEN st
    ELSE IF o.tag = "Other" THEN rk_return(st, ErrKind(o.tag))
    ELSE LET c == IF o.tag = "byte" THEN o.b ELSE 0
         IN  IF c = ord("ESC")
             THEN [st EXCEPT !.at = "seq0", !.c = c]
             ELSE rk_return([st EXCEPT !.c = c], OkKey(Char(c)))

\* `if read(&mut seq[i..i+1])? != 1 { return Ok(Char(c)) }`: the ? returns
\* every Err to the caller, Interrupted included.
read_seq(st, o, i, next) ==
    IF IsErr(o) THEN rk_return(st, ErrKind(o.tag))
    ELSE IF o.tag = "none" THEN rk_return(st, OkKey(Char(st.c)))
    ELSE [st EXCEPT !.at = next, !.seq[i] = o.b]

\* After seq[0] and seq[1] are read: the dispatch of lines 137-174; a digit
\* after ESC [ needs one more read.
dispatch(st) ==
    LET s0 == st.seq[1]
        s1 == st.seq[2]
    IN  IF s0 = ord("[")
        THEN IF s1 >= ord("0") /\ s1 <= ord("9")
             THEN [st EXCEPT !.at = "seq2"]
             ELSE rk_return(st, match_bracket(s1, st.c))
        ELSE IF s0 = ord("O")
        THEN rk_return(st, match_O(s1, st.c))
        ELSE rk_return(st, OkKey(Char(st.c)))

\* After seq[2] is read: ~ selects by the digit, anything else falls through
\* to the final `return Ok(Char(c))`.
dispatch_tilde(st) ==
    IF st.seq[3] = ord("~")
    THEN rk_return(st, match_tilde(st.seq[2], st.c))
    ELSE rk_return(st, OkKey(Char(st.c)))

\* One terminal read of editor_read_key and the code up to the next read.
rk_step(st, o) ==
    CASE st.at = "first" -> read_first(st, o)
      [] st.at = "seq0" -> read_seq(st, o, 1, "seq1")
      [] st.at = "seq1" ->
            LET t == read_seq(st, o, 2, "disp")
            IN  IF t.at = "disp" THEN dispatch(t) ELSE t
      [] st.at = "seq2" ->
            LET t == read_seq(st, o, 3, "disp")
            IN  IF t.at = "disp" THEN dispatch_tilde(t) ELSE t
      [] OTHER -> st

\* A whole call: the reads answer with `reads` in order, and with Timeout
\* once `reads` is used up (the terminal is silent).
RECURSIVE rk_run(_, _, _)
rk_run(st, reads, i) ==
    IF st.at = "ret" THEN [st |-> st, used |-> i - 1]
    ELSE rk_run(rk_step(st, IF i <= Len(reads) THEN reads[i] ELSE Timeout), reads, i + 1)

editor_read_key(reads) == rk_run(rk_entry, reads, 1)

----------------------------------------------------------------------------
(* usize arithmetic: the wrapped result, and whether it overflowed (a      *)
(* panic when overflow checks are compiled in, a wrap otherwise).          *)

USub(a, b) == (a - b) % UsizeModulus
SubOvf(a, b) == a < b
UAdd(a, b) == (a + b) % UsizeModulus
AddOvf(a, b) == a + b >= UsizeModulus

----------------------------------------------------------------------------
(* Row store. *)

KILO_TAB_STOP == 8
TAB == "\t"
SPACE == " "

Row(chars, render) == [chars |-> chars, render |-> render]

\* `for j in 0..cx`: chars().nth(j) is None past the end of the row, and the
\* column then still advances by one.
\* cx_to_rx_loop with a tab advancing by KILO_TAB_STOP - (rx % KILO_TAB_STOP)
\* before the `rx += 1`: one column too many.
RECURSIVE cx_to_rx_loop_wide(_, _, _, _)
cx_to_rx_loop_wide(row, n, j, col) ==
    IF j >= n THEN col
    ELSE LET isTab == j < Len(row.chars) /\ row.chars[j + 1] = TAB
             col1 == IF isTab
                     THEN col + (KILO_TAB_STOP - (col % KILO_TAB_STOP))
                     ELSE col
         IN  cx_to_rx_loop_wide(row, n, j + 1, col1 + 1)

RECURSIVE cx_to_rx_loop(_, _, _, _)
cx_to_rx_loop(row, n, j, col) ==
    IF j >= n THEN col
    ELSE LET isTab == j < Len(row.chars) /\ row.chars[j + 1] = TAB
             col1 == IF isTab
                     THEN col + ((KILO_TAB_STOP - 1) - (col % KILO_TAB_STOP))
                     ELSE col
         IN  cx_to_rx_loop(row, n, j + 1, col1 + 1)

\* editor_row_cx_to_rx looping over 0..=cx.
editor_row_cx_to_rx_inclusive(row, n) == cx_to_rx_loop(row, n + 1, 0, 0)

editor_row_cx_to_rx(row, n) == cx_to_rx_loop(row, n, 0, 0)

\* (0..KILO_TAB_STOP).map(|_| ' ')
spaces == [i \in 1..KILO_TAB_STOP |-> SPACE]

\* str::replace('\t', &spaces)
RECURSIVE replace_tab(_)
replace_tab(chars) ==
    IF chars = << >> THEN << >>
    ELSE (IF Head(chars) = TAB THEN spaces ELSE <<Head(chars)>>) \o replace_tab(Tail(chars))

editor_update_row(row) == [row EXCEPT !.render = replace_tab(row.chars)]

editor_append_row(rs, s) == Append(rs, editor_update_row(Row(s, << >>)))

----------------------------------------------------------------------------
(* The Kilo struct as a value, for the methods below: the fields, and      *)
(* whether the call so far overflowed a usize (ovf) or indexed rows out of *)
(* range (oob).                                                            *)

Self ==
    [cx |-> cx, cy |-> cy, rx |-> rx, rowoff |-> rowoff, coloff |-> coloff,
     screenrows |-> screenrows, screencols |-> screencols, rows |-> rows,
     filename |-> filename, statusmsg |-> statusmsg,
     statusmsg_time |-> statusmsg_time,
     ovf |-> FALSE, oob |-> FALSE]

NumRows(e) == Len(e.rows)

\* self.rows.get(cy).map(|r| r.chars.len()), 0 when there is no such row
RowLen(e, y) == IF y < NumRows(e) THEN Len(e.rows[y + 1].chars) ELSE 0

----------------------------------------------------------------------------
(* editor_scroll *)

scroll_rx(e) ==
    [e EXCEPT !.rx = IF e.cy < NumRows(e)
                     THEN editor_row_cx_to_rx(e.rows[e.cy + 1], e.cx)
                     ELSE 0]

scroll_up(e) == IF e.cy < e.rowoff THEN [e EXCEPT !.rowoff = e.cy] ELSE e

scroll_down(e) ==
    LET f == [e EXCEPT !.ovf = @ \/ AddOvf(e.rowoff, e.screenrows)]
    IN  IF e.cy >= UAdd(e.rowoff, e.screenrows)
        THEN [f EXCEPT !.rowoff = UAdd(USub(e.cy, e.screenrows), 1),
                       !.ovf = @ \/ SubOvf(e.cy, e.screenrows)
                                 \/ AddOvf(USub(e.cy, e.screenrows), 1)]
        ELSE f

scroll_left(e) == IF e.rx < e.coloff THEN [e EXCEPT !.coloff = e.rx] ELSE e

scroll_right(e) ==
    LET f == [e EXCEPT !.ovf = @ \/ AddOvf(e.coloff, e.screencols)]
    IN  IF e.rx >= UAdd(e.coloff, e.screencols)
        THEN [f EXCEPT !.coloff = UAdd(USub(e.rx, e.screencols), 1),
                       !.ovf = @ \/ SubOvf(e.rx, e.screencols)
                                 \/ AddOvf(USub(e.rx, e.screencols), 1)]
        ELSE f

editor_scroll(e) == scroll_right(scroll_left(scroll_down(scroll_up(scroll_rx(e)))))

----------------------------------------------------------------------------
(* Strings are sequences of one-character strings.  In what is written to  *)
(* the terminal an escape sequence is one element, named by its text with  *)
(* "ESC" for '\x1b', and "CRLF" is "\r\n".                                 *)

\* String::truncate(n)
truncate(str, n) == SubSeq(str, 1, IF n < Len(str) THEN n ELSE Len(str))

blanks(n) == [i \in 1..n |-> SPACE]

Digits == <<"0", "1", "2", "3", "4", "5", "6", "7", "8", "9">>

\* format!("{}", n) of a usize
RECURSIVE Dec(_)
Dec(n) ==
    IF n < 10 THEN <<Digits[n + 1]>>
    ELSE Dec(n \div 10) \o <<Digits[(n % 10) + 1]>>

\* usize::saturating_sub
saturating_sub(a, b) == IF a > b THEN a - b ELSE 0

----------------------------------------------------------------------------
(* editor_draw_rows *)

\* "Kilo editor", or "Kilo editor -- version {}" when the package version is
\* known to the build: the terminals of the model are narrower than the
\* characters the two have in common.
welcome_text == <<"K", "i", "l", "o", " ", "e", "d", "i", "t", "o", "r">>

\* &line[from..to]: panics unless from <= to <= line.len()
slice(line, from, to) ==
    IF from <= to /\ to <= Len(line)
    THEN [text |-> SubSeq(line, from + 1, to), oob |-> FALSE]
    ELSE [text |-> << >>, oob |-> TRUE]

\* draw_line without `if len > self.screencols { len = self.screencols }`:
\* the row is shown to its end, past the right edge of the window.
draw_line_unclamped(e, line) ==
    LET len == saturating_sub(Len(line), e.coloff)
    IN  IF len > 0 THEN slice(line, e.coloff, e.coloff + len)
        ELSE [text |-> << >>, oob |-> FALSE]

\* What screen row y shows of the document row under it.
draw_line(e, line) ==
    LET avail == saturating_sub(Len(line), e.coloff)
        len == IF avail > e.screencols THEN e.screencols ELSE avail
    IN  IF len > 0 THEN slice(line, e.coloff, e.coloff + len)
        ELSE [text |-> << >>, oob |-> FALSE]

draw_welcome(e) ==
    LET welcome == truncate(welcome_text, e.screencols)
        padding == (e.screencols - Len(welcome)) \div 2
    IN  (IF padding > 0 THEN <<"~">> \o blanks(padding - 1) ELSE << >>) \o welcome

\* The body of `for y in 0..self.screenrows`, before "\x1b[K\r\n".
draw_row(e, y) ==
    LET filerow == y + e.rowoff
    IN  IF filerow >= NumRows(e)
        THEN [text |-> IF NumRows(e) = 0 /\ y = e.screenrows \div 3
                       THEN draw_welcome(e) ELSE <<"~">>,
              oob |-> FALSE]
        ELSE draw_line(e, e.rows[filerow + 1].render)

RECURSIVE draw_rows_from(_, _)
draw_rows_from(e, y) ==
    IF y >= e.screenrows THEN << >>
    ELSE draw_row(e, y).text \o <<"ESC[K", "CRLF">> \o draw_rows_from(e, y + 1)

\* `b` is (self, buffer) on return.
editor_draw_rows(b) ==
    [e |-> [b.e EXCEPT !.oob = @ \/ \E y \in 0..(b.e.screenrows - 1) :
                                        draw_row(b.e, y).oob],
     buffer |-> b.buffer \o draw_rows_from(b.e, 0)]

\* editor_draw_rows pushes at least "\x1b[K\r\n" (5 bytes) per screen row
\* into one String, whose capacity cannot pass isize::MAX.
draw_rows_fits(e) == 5 * e.screenrows < UsizeModulus \div 2

----------------------------------------------------------------------------
(* editor_draw_status_bar, editor_draw_message_bar *)

editor_draw_status_bar(b) ==
    LET e == b.e
        status == truncate(truncate(e.filename, 20) \o <<" ", "-", " ">>
                           \o Dec(NumRows(e)) \o <<" ", "l", "i", "n", "e", "s">>,
                           e.screencols)
        rstatus == Dec(UAdd(e.cy, 1)) \o <<"/">> \o Dec(NumRows(e))
        room == e.screencols - Len(status)
        fill == IF room >= Len(rstatus)
                THEN blanks(room - Len(rstatus)) \o rstatus
                ELSE blanks(room)
    IN  [e |-> [e EXCEPT !.ovf = @ \/ AddOvf(e.cy, 1)],
         buffer |-> b.buffer \o <<"ESC[7m">> \o status \o fill \o <<"ESC[m", "CRLF">>]

\* self.statusmsg_time.elapsed() < Duration::from_secs(5) at instant t
message_fresh(e, t) == t - e.statusmsg_time < 1

editor_draw_message_bar(b, t) ==
    LET msg == truncate(b.e.statusmsg, b.e.screencols)
    IN  [e |-> [b.e EXCEPT !.statusmsg = msg],
         buffer |-> b.buffer \o <<"ESC[K">>
                    \o (IF message_fresh(b.e, t) THEN msg ELSE << >>)]

----------------------------------------------------------------------------
(* editor_refresh_screen: the scroll recomputation, then the frame, which  *)
(* ends with the cursor placement "\x1b[{};{}H" at (cy - rowoff) + 1,      *)
(* (rx - coloff) + 1.                                                      *)

cursor_row(e) == UAdd(USub(e.cy, e.rowoff), 1)
cursor_col(e) == UAdd(USub(e.rx, e.coloff), 1)

cursor_placement(e) ==
    [e EXCEPT !.ovf = @ \/ SubOvf(e.cy, e.rowoff) \/ AddOvf(USub(e.cy, e.rowoff), 1)
                        \/ SubOvf(e.rx, e.coloff) \/ AddOvf(USub(e.rx, e.coloff), 1)]

\* Everything after self.editor_scroll(), up to the write: the buffer is
\* composed at instant t.
compose_frame(e, t) ==
    LET head == [e |-> e, buffer |-> <<"ESC[?25l", "ESC[H">>]
        bars == editor_draw_message_bar(
                    editor_draw_status_bar(editor_draw_rows(head)), t)
        f == cursor_placement(bars.e)
    IN  [e |-> f,
         buffer |-> bars.buffer \o <<"ESC[">> \o Dec(cursor_row(f)) \o <<";">>
                    \o Dec(cursor_col(f)) \o <<"H", "ESC[?25h">>]

\* (self, buffer) when the buffer is handed to stdout.
editor_refresh_screen(e, t) == compose_frame(editor_scroll(e), t)

----------------------------------------------------------------------------
(* editor_move_cursor *)

move_key(e, key) ==
    CASE key.k = "ArrowLeft" ->
            IF e.cx # 0 THEN [e EXCEPT !.cx = e.cx - 1]
            ELSE IF e.cy > 0
            THEN IF e.cy - 1 < NumRows(e)
                 THEN [e EXCEPT !.cy = e.cy - 1, !.cx = RowLen(e, e.cy - 1)]
                 ELSE [e EXCEPT !.cy = e.cy - 1, !.oob = TRUE]
            ELSE e
      [] key.k = "ArrowRight" ->
            IF e.cy < NumRows(e)
            THEN IF e.cx < RowLen(e, e.cy) THEN [e EXCEPT !.cx = e.cx + 1]
                 ELSE IF e.cx = RowLen(e, e.cy)
                 THEN [e EXCEPT !.cy = e.cy + 1, !.cx = 0]
                 ELSE e
            ELSE e
      [] key.k = "ArrowUp" ->
            IF e.cy # 0 THEN [e EXCEPT !.cy = e.cy - 1] ELSE e
      [] key.k = "ArrowDown" ->
            IF e.cy < NumRows(e) THEN [e EXCEPT !.cy = e.cy + 1] ELSE e
      [] OTHER -> e

clamp_cx(e) ==
    LET rowlen == RowLen(e, e.cy)
    IN  IF e.cx > rowlen THEN [e EXCEPT !.cx = rowlen] ELSE e

editor_move_cursor(e, key) ==
    LET m == move_key(e, key)
    IN  IF m.oob THEN m ELSE clamp_cx(m)

----------------------------------------------------------------------------
(* editor_process_keypress *)

\* page_snap with PageDown snapping to rowoff + screenrows, the row under
\* the window, for rowoff + screenrows - 1.
page_snap_below(e, key) ==
    IF key.k = "PageUp" THEN [e EXCEPT !.cy = e.rowoff]
    ELSE LET y == UAdd(e.rowoff, e.screenrows)
         IN  [e EXCEPT !.cy = IF y > NumRows(e) THEN NumRows(e) ELSE y,
                       !.ovf = @ \/ AddOvf(e.rowoff, e.screenrows)]

\* PageUp | PageDown: the snap of cy
page_snap(e, key) ==
    IF key.k = "PageUp" THEN [e EXCEPT !.cy = e.rowoff]
    ELSE LET t == UAdd(e.rowoff, e.screenrows)
             y == USub(t, 1)
         IN  [e EXCEPT !.cy = IF y > NumRows(e) THEN NumRows(e) ELSE y,
                       !.ovf = @ \/ AddOvf(e.rowoff, e.screenrows) \/ SubOvf(t, 1)]

\* `for _ in 0..n { self.editor_move_cursor(key) }`
RECURSIVE repeat_move(_, _, _)
repeat_move(e, key, n) ==
    IF n = 0 \/ e.oob THEN e
    ELSE repeat_move(editor_move_cursor(e, key), key, n - 1)

page_move(e, key) ==
    repeat_move(page_snap(e, key),
                IF key.k = "PageUp" THEN Key("ArrowUp") ELSE Key("ArrowDown"),
                e.screenrows)

\* apply_key with EndKey going to the end of the rendered row (render.len()
\* for chars.len()): past the end of a row that holds a tab.
apply_key_end_render(e, c) ==
    CASE c.k = "HomeKey" -> [e EXCEPT !.cx = 0]
      [] c.k = "EndKey" ->
            IF e.cy < NumRows(e)
            THEN [e EXCEPT !.cx = Len(e.rows[e.cy + 1].render)] ELSE e
      [] c.k \in {"PageUp", "PageDown"} -> page_move(e, c)
      [] c.k \in {"ArrowUp", "ArrowDown", "ArrowLeft", "ArrowRight"} ->
            editor_move_cursor(e, c)
      [] OTHER -> e

\* The match on the decoded key.
apply_key(e, c) ==
    CASE c.k = "HomeKey" -> [e EXCEPT !.cx = 0]
      [] c.k = "EndKey" ->
            IF e.cy < NumRows(e) THEN [e EXCEPT !.cx = RowLen(e, e.cy)] ELSE e
      [] c.k \in {"PageUp", "PageDown"} -> page_move(e, c)
      [] c.k \in {"ArrowUp", "ArrowDown", "ArrowLeft", "ArrowRight"} ->
            editor_move_cursor(e, c)
      [] OTHER -> e

\* editor_process_keypress comparing the key with 'q' for ctrl_key('q'):
\* Ctrl-Q is a key like any other and the loop goes on.
editor_process_keypress_q(e, reads) ==
    LET st == editor_read_key(reads).st
        r == st.ret
    IN  IF r.tag = "Err" THEN [e |-> e, st |-> st, ret |-> "Err"]
        ELSE IF r.key.k = "Char" /\ r.key.c = ord("q")
        THEN [e |-> e, st |-> st, ret |-> "false"]
        ELSE [e |-> apply_key(e, r.key), st |-> st, ret |-> "true"]

\* The value returned: Ok(false) on Ctrl-Q, the decoder's Err, Ok(true)
\* otherwise; `e` is self on return and `st` the decoder's final state.
editor_process_keypress(e, reads) ==
    LET st == editor_read_key(reads).st
        r == st.ret
    IN  IF r.tag = "Err" THEN [e |-> e, st |-> st, ret |-> "Err"]
        ELSE IF r.key.k = "Char" /\ r.key.c = ctrl_key("q")
        THEN [e |-> e, st |-> st, ret |-> "false"]
        ELSE [e |-> apply_key(e, r.key), st |-> st, ret |-> "true"]

----------------------------------------------------------------------------
(* get_cursor_position, get_window_size *)

OkSize(r, c) == [tag |-> "Ok", size |-> <<r, c>>]
ErrSize == [tag |-> "Err", size |-> <<0, 0>>]

is_digit(ch) == \E d \in 1..Len(Digits) : Digits[d] = ch
digit_value(ch) == (CHOOSE d \in 1..Len(Digits) : Digits[d] = ch) - 1

RECURSIVE digits_value(_, _)
digits_value(str, acc) ==
    IF str = << >> THEN acc
    ELSE digits_value(Tail(str), 10 * acc + digit_value(Head(str)))

\* str::parse::<usize>().unwrap_or(0): an optional '+', then one digit or
\* more; anything else is an error, replaced by 0.
parse_or_0(str) ==
    LET d == IF str # << >> /\ Head(str) = "+" THEN Tail(str) ELSE str
    IN  IF d # << >> /\ \A i \in 1..Len(d) : is_digit(d[i])
        THEN digits_value(d, 0)
        ELSE 0

\* str::split(';'): the fields between the separators, one at least.
RECURSIVE split(_, _)
split(str, field) ==
    IF str = << >> THEN <<field>>
    ELSE IF Head(str) = ";" THEN <<field>> \o split(Tail(str), << >>)
    ELSE split(Tail(str), Append(field, Head(str)))

\* What the one read of up to 32 bytes returned: an error, or the bytes
\* (none when the read timed out); "0xFF" is a byte that is not UTF-8.
ReadErr == [tag |-> "Err", bytes |-> << >>]
ReadOk(bytes) == [tag |-> "Ok", bytes |-> bytes]

\* After "\x1b[6n" was written: `reply` is the outcome of the read.
get_cursor_position(reply) ==
    LET str == reply.bytes
        n == Len(str)
    IN  IF reply.tag = "Err" THEN ErrSize
        ELSE IF \E i \in 1..n : str[i] = "0xFF" THEN ErrSize
        ELSE IF ~(n >= 2 /\ str[1] = "ESC" /\ str[2] = "[") \/ ~(n >= 1 /\ str[n] = "R")
        THEN ErrSize
        ELSE LET parts == split(SubSeq(str, 3, n - 1), << >>)
             IN  OkSize(parse_or_0(parts[1]),
                        IF Len(parts) >= 2 THEN parse_or_0(parts[2]) ELSE 0)

\* `answer` is what the terminal does: the ioctl's return value and winsize,
\* whether the writes of the probe succeed, and the reply read back.
get_window_size(answer) ==
    IF answer.ioctl = -1 \/ answer.ws_col = 0 \/ answer.ws_row = 0
    THEN IF answer.written THEN get_cursor_position(answer.reply) ELSE ErrSize
    ELSE OkSize(answer.ws_row, answer.ws_col)

\* What get_window_size wrote to the terminal.
probe_output(answer) ==
    IF answer.ioctl = -1 \/ answer.ws_col = 0 \/ answer.ws_row = 0
    THEN IF answer.written THEN <<"ESC[999C", "ESC[999B", "ESC[6n">> ELSE << >>
    ELSE << >>

----------------------------------------------------------------------------
(* init_editor: (rows, cols) is what get_window_size returned. *)

init_editor(e, ws) ==
    [e EXCEPT !.screenrows = USub(ws[1], 2), !.screencols = ws[2],
              !.ovf = @ \/ SubOvf(ws[1], 2)]

----------------------------------------------------------------------------
(* The inputs of the model. *)

\* The sizes of the terminal: what the ioctl stores in winsize, or what the
\* terminal reports as the cursor position after the probe.
WindowSizes == (0..MaxWinRows) \X (0..MaxWinCols)

NoReply == ReadOk(<< >>)

Answer(ret, ws, written, reply) ==
    [ioctl |-> ret, ws_row |-> ws[1], ws_col |-> ws[2],
     written |-> written, reply |-> reply]

NoAnswer == Answer(0, <<0, 0>>, FALSE, NoReply)

\* "\x1b[{rows};{cols}R"
Report(ws) == <<"ESC", "[">> \o Dec(ws[1]) \o <<";">> \o Dec(ws[2]) \o <<"R">>

\* The replies to the probe: a report of every size, and replies that are
\* no report: nothing, a report cut short, without its introducer, with
\* fields missing, empty or not numeric, with a field too many, not UTF-8.
Replies ==
    { ReadOk(Report(ws)) : ws \in WindowSizes }
    \cup { ReadOk(str) : str \in
             { << >>, <<"ESC", "[", "4", ";", "3">>, <<"4", ";", "3", "R">>,
               <<"ESC", "[", "R">>, <<"ESC", "[", "4", "R">>,
               <<"ESC", "[", ";", "R">>, <<"ESC", "[", "a", ";", "b", "R">>,
               <<"ESC", "[", "+", "4", ";", "3", "R">>,
               <<"ESC", "[", "4", ";", "3", ";", "2", "R">>,
               <<"ESC", "[", "0xFF", ";", "3", "R">> } }
    \cup {ReadErr}

\* What the terminal may do when asked for its size: the ioctl succeeds
\* (the probe is not run when neither dimension is 0), or it fails and the
\* probe is answered, or the probe cannot be written.
Answers ==
    { Answer(0, ws, FALSE, NoReply) : ws \in { w \in WindowSizes : w[1] # 0 /\ w[2] # 0 } }
    \cup { Answer(ret, ws, TRUE, reply) :
              ret \in {-1}, ws \in {<<0, 0>>}, reply \in Replies }
    \cup { Answer(0, ws, TRUE, ReadOk(Report(<<MaxWinRows, MaxWinCols>>))) :
              ws \in { w \in WindowSizes : w[1] = 0 \/ w[2] = 0 } }
    \cup { Answer(-1, <<0, 0>>, FALSE, NoReply) }

\* The lines a file is made of: empty, without a tab, with a tab.
FileLines == { << >>, <<"a", "b">>, <<"a", TAB, "b">> }

\* The files: up to MaxRows lines.
Files == UNION { [1..n -> FileLines] : n \in 0..MaxRows }

\* What the terminal sends for one key press, as the answers to the reads
\* of one editor_read_key.
Esc(bs) == <<Got(ord("ESC"))>> \o [i \in 1..Len(bs) |-> Got(ord(bs[i]))]

Typed ==
    { Esc(<<"[", "A">>), Esc(<<"[", "B">>), Esc(<<"[", "C">>), Esc(<<"[", "D">>),
      Esc(<<"[", "H">>), Esc(<<"[", "F">>),
      Esc(<<"[", "5", "~">>), Esc(<<"[", "6", "~">>), Esc(<<"[", "3", "~">>),
      <<Got(ord("q"))>>, <<Got(ctrl_key("q"))>>,
      << >>, <<Got(ord("ESC")), Interrupted>>, <<Failed>> }

\* The bytes the decoder is tried on: every byte it compares with, the
\* neighbours of the digit range, and bytes it does not name.
Bytes ==
    { ord(ch) : ch \in {"ESC", "[", "O", "~", "0", "1", "2", "3", "4", "5", "6",
                        "7", "8", "9", "A", "B", "C", "D", "E", "F", "H", "q",
                        "/", ":"} }
    \cup {0, ctrl_key("q")}

Outcomes == { Got(b) : b \in Bytes } \cup {Timeout, Interrupted, Failed}

\* The rows of SpecRow: every string of up to MaxLen characters.
Lines == UNION { [1..n -> {"a", "b", TAB}] : n \in 0..MaxLen }

----------------------------------------------------------------------------
(* run(): the actions. *)

\* The names a file is opened under.
FileNames == { <<"f">> }

HelpMessage ==
    <<"H", "E", "L", "P", ":", " ", "C", "t", "r", "l", "-", "Q", " ", "=", " ",
      "q", "u", "i", "t">>

\* clear_screen(): `done` of its two writes reach the terminal, and it
\* returns Ok when both did.
clear_screen(done) ==
    [tag |-> IF done = 2 THEN "Ok" ELSE "Err",
     out |-> SubSeq(<<"ESC[2J", "ESC[H">>, 1, done)]

Commit(e) ==
    /\ cx' = e.cx /\ cy' = e.cy /\ rx' = e.rx
    /\ rowoff' = e.rowoff /\ coloff' = e.coloff
    /\ screenrows' = e.screenrows /\ screencols' = e.screencols
    /\ rows' = e.rows
    /\ filename' = e.filename
    /\ statusmsg' = e.statusmsg /\ statusmsg_time' = e.statusmsg_time

\* disable_raw_mode handing tcsetattr the raw attributes for orig_termios.
disable_raw_mode_raw(ok) == IF ok THEN "raw" ELSE termios

\* disable_raw_mode(): tcsetattr succeeds or not.
disable_raw_mode(ok) == IF ok THEN "orig" ELSE termios

\* The fields of an editor that is no more.
Dropped ==
    [cx |-> 0, cy |-> 0, rx |-> 0, rowoff |-> 0, coloff |-> 0,
     screenrows |-> 0, screencols |-> 0, rows |-> << >>,
     filename |-> << >>, statusmsg |-> << >>, statusmsg_time |-> 0]

\* run() is left, by a return or by a panic that unwinds it, and the editor
\* it owns is dropped on the way out; control is at `next` afterwards.
Drop(next) ==
    /\ restores' = restores + 1
    /\ \E ok \in BOOLEAN :
         /\ termios' = disable_raw_mode(ok)
         /\ stderr' = IF ok THEN stderr
                      ELSE Append(stderr, "Unable to restore canonical mode")
    /\ Commit(Dropped)
    /\ pc' = next

\* How a call that computed `e` ends: an out-of-range index panics; an
\* overflow panics when overflow checks are compiled in and wraps otherwise,
\* and the build that wrapped once wraps ever after.  Without a panic run()
\* goes on at `next`, or returns the call's Err to main ("main_err").
Finish(e, next) ==
    \/ /\ ~e.oob
       /\ build' = IF e.ovf THEN "release" ELSE build
       /\ IF next = "main_err" THEN Drop(next)
          ELSE Commit(e) /\ pc' = next /\ UNCHANGED tty
    \/ /\ e.oob \/ (e.ovf /\ build = "any")
       /\ build' = IF e.oob THEN build ELSE "debug"
       /\ Drop("exit_panic")

\* Kilo::new()
Constructed ==
    /\ build = "any"
    /\ cx = 0 /\ cy = 0 /\ rx = 0 /\ rowoff = 0 /\ coloff = 0
    /\ screenrows = 0 /\ screencols = 0 /\ rows = << >>
    /\ filename = << >> /\ statusmsg = << >> /\ statusmsg_time = 0
    /\ rk = rk_entry /\ input = << >>
    /\ now = 0 /\ termios = "orig" /\ restores = 0
    /\ stderr = << >> /\ stdout = << >> /\ winsize = NoAnswer

Init == pc = "start" /\ Constructed

\* self.enable_raw_mode()?
EnableRawMode ==
    /\ pc = "start"
    /\ \/ termios' = "raw" /\ pc' = "init" /\ UNCHANGED <<kilo, restores, stderr>>
       \/ Drop("main_err")
    /\ UNCHANGED <<build, rk, input, now, stdout, winsize>>

\* self.init_editor()?
InitEditor ==
    /\ pc = "init"
    /\ \E answer \in Answers :
         LET r == get_window_size(answer)
         IN  /\ winsize' = answer
             /\ stdout' = probe_output(answer)
             /\ IF r.tag = "Err"
                THEN Drop("main_err") /\ UNCHANGED build
                ELSE Finish(init_editor(Self, r.size), "open")
    /\ UNCHANGED <<rk, input, now>>

RECURSIVE append_lines(_, _)
append_lines(rs, ls) ==
    IF ls = << >> THEN rs ELSE append_lines(editor_append_row(rs, Head(ls)), Tail(ls))

\* `lines` is what the file holds.
editor_open(e, name, lines) ==
    [e EXCEPT !.filename = name, !.rows = append_lines(@, lines)]

\* The message is stamped with the instant t.
editor_set_status_message(e, message, t) ==
    [e EXCEPT !.statusmsg = message, !.statusmsg_time = t]

\* if let Some(filename) = argv.next() { self.editor_open(&filename)? }
\* self.editor_set_status_message("HELP: Ctrl-Q = quit")
EditorOpen ==
    /\ pc = "open"
    /\ \/ /\ Commit(editor_set_status_message(Self, HelpMessage, now))
          /\ pc' = "refresh"
          /\ UNCHANGED tty
       \/ \E name \in FileNames, f \in Files :
            /\ Commit(editor_set_status_message(editor_open(Self, name, f),
                                                HelpMessage, now))
            /\ pc' = "refresh"
            /\ UNCHANGED tty
       \/ Drop("main_err")
    /\ winsize' = NoAnswer /\ stdout' = << >>
    /\ UNCHANGED <<build, rk, input, now>>

\* self.editor_refresh_screen()?: the buffer is written, or the write fails.
Refresh ==
    /\ pc = "refresh"
    /\ IF draw_rows_fits(Self)
       THEN LET r == editor_refresh_screen(Self, now)
            IN  \/ /\ Finish(r.e, "keypress")
                   /\ stdout' = IF pc' = "keypress" THEN r.buffer ELSE << >>
                \/ /\ Finish(r.e, "main_err")
                   /\ stdout' = << >>
       ELSE pc' = "abort" /\ stdout' = << >> /\ UNCHANGED <<kilo, build, tty>>
    /\ rk' = rk_entry /\ input' = << >>
    /\ UNCHANGED <<now, winsize>>

\* The message lifetime elapses while the editor waits for a key; the clock
\* is followed until the message has expired.
Tick ==
    /\ pc = "keypress"
    /\ message_fresh(Self, now)
    /\ now' = now + 1
    /\ UNCHANGED <<pc, build, kilo, rk, input, tty, stdout, winsize>>

\* if !self.editor_process_keypress()? { break }
Keypress ==
    /\ pc = "keypress"
    /\ \E reads \in Typed :
         LET r == editor_process_keypress(Self, reads)
         IN  /\ r.e.cy <= MaxCy
             /\ rk' = r.st /\ input' = reads
             /\ CASE r.ret = "Err" -> Drop("main_err") /\ UNCHANGED build
                  [] r.ret = "false" -> pc' = "quit" /\ UNCHANGED <<kilo, build, tty>>
                  [] OTHER -> Finish(r.e, "refresh")
    /\ stdout' = << >>
    /\ UNCHANGED <<now, winsize>>

\* clear_screen()?; Ok(())
ClearScreen ==
    /\ pc = "quit"
    /\ \E done \in 0..2 :
         /\ stdout' = clear_screen(done).out
         /\ Drop(IF clear_screen(done).tag = "Ok" THEN "exit_ok" ELSE "main_err")
    /\ UNCHANGED <<build, rk, input, now, winsize>>

\* main(): if let Err(e) = kilo.run() { clear_screen(); eprintln!(..) }
MainError ==
    /\ pc = "main_err"
    /\ \E done \in 0..2 :
         /\ stdout' = clear_screen(done).out
         /\ stderr' = stderr
                \o (IF clear_screen(done).tag = "Ok" THEN << >>
                    ELSE <<"Unable to clear screen">>)
                \o <<"Error encountered while running Kilo">>
    /\ pc' = "exit_err"
    /\ UNCHANGED <<build, kilo, rk, input, now, termios, restores, winsize>>

Next ==
    \/ EnableRawMode \/ InitEditor \/ EditorOpen \/ Refresh \/ Tick \/ Keypress
    \/ ClearScreen \/ MainError

Spec == Init /\ [][Next]_vars

\* Once the loop is left run() goes on to its end: clear_screen is called
\* and the editor dropped.
SpecFair == Spec /\ WF_vars(ClearScreen)

----------------------------------------------------------------------------
(* SpecKey: one call of editor_read_key after another, read by read. *)

NumIntr(reads) == Cardinality({ i \in 1..Len(reads) : reads[i] = Interrupted })

InitKey == pc = "read_key" /\ Constructed

\* The terminal answers the read the decoder is blocked in.
KeyRead ==
    /\ pc = "read_key"
    /\ rk.at # "ret"
    /\ \E o \in Outcomes :
         /\ o = Interrupted => NumIntr(input) < MaxIntr
         /\ rk' = rk_step(rk, o)
         /\ input' = Append(input, o)
    /\ UNCHANGED <<pc, build, kilo, world>>

\* The caller calls editor_read_key again.
KeyCall ==
    /\ pc = "read_key"
    /\ rk.at = "ret"
    /\ rk' = rk_entry /\ input' = << >>
    /\ UNCHANGED <<pc, build, kilo, world>>

NextKey == KeyRead \/ KeyCall

SpecKey == InitKey /\ [][NextKey]_vars

----------------------------------------------------------------------------
(* SpecRow: a row is appended, then columns are mapped on it. *)

InitRow == pc = "row" /\ Constructed

RowAppend ==
    /\ pc = "row"
    /\ rows = << >>
    /\ \E s \in Lines : rows' = editor_append_row(rows, s)
    /\ UNCHANGED <<pc, build, cx, cy, rx, rowoff, coloff, screenrows, screencols,
                   filename, statusmsg, statusmsg_time, rk, input, world>>

\* self.rx = self.editor_row_cx_to_rx(&self.rows[self.cy], self.cx)
RowColumn ==
    /\ pc = "row"
    /\ rows # << >>
    /\ \E n \in 0..Len(rows[1].chars) :
         /\ cx' = n
         /\ rx' = editor_row_cx_to_rx(rows[1], n)
    /\ UNCHANGED <<pc, build, cy, rowoff, coloff, screenrows, screencols, rows,
                   filename, statusmsg, statusmsg_time, rk, input, world>>

NextRow == RowAppend \/ RowColumn

SpecRow == InitRow /\ [][NextRow]_vars

----------------------------------------------------------------------------
(* Properties of the editor loop (Spec). *)

\* A frame has just been composed: editor_refresh_screen returned and the
\* loop waits for a key.
FrameComposed == pc = "keypress"

\* The cursor is where the data model allows it.
CursorLegal ==
    /\ cy <= Len(rows)
    /\ cx <= RowLen(Self, cy)

\* C1: at every frame of a non-empty document the cursor lies inside the
\* window: rowoff <= cy < rowoff + screenrows and
\* coloff <= rx < coloff + screencols.
C1_ScrollInvariant ==
    (FrameComposed /\ rows # << >>) =>
        /\ rowoff <= cy /\ cy < rowoff + screenrows
        /\ coloff <= rx /\ rx < coloff + screencols

\* The same on a terminal of at least 3 rows and 1 column.
ScrollInvariantOrdinary ==
    (FrameComposed /\ rows # << >> /\ screenrows \in 1..MaxWinRows /\ screencols >= 1) =>
        /\ rowoff <= cy /\ cy < rowoff + screenrows
        /\ coloff <= rx /\ rx < coloff + screencols

\* C2: in every state 0 <= cy <= len(Document), cx <= len(rows[cy].chars)
\* on a row, and cx = 0 past the last row.
C2_CursorBounds ==
    /\ 0 <= cy /\ cy <= Len(rows)
    /\ cy < Len(rows) => cx <= Len(rows[cy + 1].chars)
    /\ cy = Len(rows) => cx = 0

\* The same on a terminal of at least 3 rows.
CursorBoundsOrdinary == screenrows \in 1..MaxWinRows => C2_CursorBounds

\* What C10 says of one key applied to the cursor (cx, cy).
HorizontalWrapStep ==
    LET k == rk'.ret.key.k
        len == RowLen(Self, cy)
    IN  /\ (k = "ArrowRight" /\ cy < Len(rows) /\ cx < len) => (cy' = cy /\ cx' = cx + 1)
        /\ (k = "ArrowRight" /\ cy < Len(rows) /\ cx = len) => (cy' = cy + 1 /\ cx' = 0)
        /\ (k = "ArrowRight" /\ cy = Len(rows)) => (cy' = cy /\ cx' = cx)
        /\ (k = "ArrowLeft" /\ cx > 0) => (cy' = cy /\ cx' = cx - 1)
        /\ (k = "ArrowLeft" /\ cx = 0 /\ cy > 0) =>
               (cy' = cy - 1 /\ cy - 1 < Len(rows) /\ cx' = RowLen(Self, cy - 1))
        /\ (k = "ArrowLeft" /\ cx = 0 /\ cy = 0) => (cy' = cy /\ cx' = cx)

\* A key was decoded and applied in this step.
KeyApplied == pc = "keypress" /\ rk'.at = "ret" /\ rk'.ret.tag = "Ok"

\* C10: ArrowRight moves to (cy, cx+1) inside a row, wraps to (cy+1, 0) at
\* its end and is a no-op past the last row; ArrowLeft moves to (cy, cx-1),
\* wraps to the end of the previous row at cx = 0, and is a no-op at (0,0).
C10_HorizontalWrap == [][KeyApplied => HorizontalWrapStep]_vars

\* The same from a legal cursor.
HorizontalWrapLegal == [][(KeyApplied /\ CursorLegal) => HorizontalWrapStep]_vars

----------------------------------------------------------------------------
(* Properties of the key decoder (SpecKey). *)

Returned == pc = "read_key" /\ rk.at = "ret"

\* The bytes the reads delivered, in order.
BytesOf(reads) ==
    LET RECURSIVE bs(_)
        bs(r) == IF r = << >> THEN << >>
                 ELSE (IF Head(r).tag = "byte" THEN <<Head(r).b>> ELSE << >>) \o bs(Tail(r))
    IN  bs(reads)

\* Every read delivered a byte, except that the last may have timed out.
PlainStream(reads) ==
    /\ reads # << >>
    /\ \A i \in 1..Len(reads) :
          \/ reads[i].tag = "byte"
          \/ i = Len(reads) /\ i > 1 /\ reads[i] = Timeout

\* The decoding table of the specification, as pairs <<byte, key>>.
TildeTable ==
    { <<49, "HomeKey">>, <<55, "HomeKey">>, <<51, "DelKey">>, <<52, "EndKey">>,
      <<56, "EndKey">>, <<53, "PageUp">>, <<54, "PageDown">> }
BracketTable ==
    { <<65, "ArrowUp">>, <<66, "ArrowDown">>, <<67, "ArrowRight">>,
      <<68, "ArrowLeft">>, <<72, "HomeKey">>, <<70, "EndKey">> }
OTable == { <<72, "HomeKey">>, <<70, "EndKey">> }

Lookup(table, b) ==
    IF \E p \in table : p[1] = b
    THEN Key((CHOOSE p \in table : p[1] = b)[2])
    ELSE Char(27)

IsDigit(b) == b \in 48..57

\* C3: the key decoding table: Char(b) for a first byte other than ESC;
\* ESC [ d ~ by the digit d; ESC [ letter and ESC O letter by the letter;
\* Char(ESC) for every other second byte, digit or letter.
C3_KeyTable ==
    (Returned /\ PlainStream(input)) =>
        LET b == BytesOf(input)
            n == Len(b)
            key == rk.ret.key
        IN  /\ rk.ret.tag = "Ok"
            /\ b[1] # 27 => key = Char(b[1])
            /\ (n = 4 /\ b[1] = 27 /\ b[2] = 91 /\ IsDigit(b[3]) /\ b[4] = 126)
                  => key = Lookup(TildeTable, b[3])
            /\ (n = 3 /\ b[1] = 27 /\ b[2] = 91 /\ ~IsDigit(b[3]))
                  => key = Lookup(BracketTable, b[3])
            /\ (n = 3 /\ b[1] = 27 /\ b[2] = 79) => key = Lookup(OTable, b[3])
            /\ (n >= 2 /\ b[1] = 27 /\ b[2] \notin {91, 79}) => key = Char(27)

\* ESC [ 3 ~ was read and decoded as DelKey.
C3_Witness ==
    /\ Returned
    /\ input = Esc(<<"[", "3", "~">>)
    /\ rk.ret = OkKey(Key("DelKey"))

\* C4: once ESC is read, a follow-up read that times out or fails makes
\* editor_read_key return Char(ESC), never an error.
C4_GracefulEscape ==
    (Returned /\ rk.c = 27 /\ Len(input) >= 2
        /\ input[Len(input)] \in {Timeout, Failed}) =>
        rk.ret = OkKey(Char(27))

\* C5: an Interrupted read, the first or a follow-up one, is retried and
\* never returned to the caller as an error.
C5_InterruptedRetried ==
    Returned => ~(rk.ret.tag = "Err" /\ rk.ret.err = "Interrupted")

\* C6: every key editor_read_key returns stands for at least one byte
\* consumed; a first read of zero bytes produces no key.
C6_KeyNeedsByte ==
    (Returned /\ rk.ret.tag = "Ok") => BytesOf(input) # << >>

----------------------------------------------------------------------------
(* Properties of the row store (SpecRow). *)

RowAppended == pc = "row" /\ rows # << >>

\* The scan of the specification: 1 per character, a tab to the next stop.
RECURSIVE RefScan(_, _)
RefScan(chars, n) ==
    IF n = 0 THEN 0
    ELSE LET before == RefScan(chars, n - 1)
         IN  IF chars[n] = TAB THEN ((before \div 8) + 1) * 8 ELSE before + 1

\* C7: editor_row_cx_to_rx is the reference scan of chars[0..cx]; on the
\* row a<TAB>b it gives 1, 8 and 9 for cx = 1, 2 and 3.
C7_ReferenceScan ==
    RowAppended =>
        /\ rx = RefScan(rows[1].chars, cx)
        /\ rows[1].chars = <<"a", TAB, "b">> =>
              /\ cx = 1 => rx = 1
              /\ cx = 2 => rx = 8
              /\ cx = 3 => rx = 9

\* The column after the tab of a<TAB>b was mapped.
C7_Witness ==
    /\ RowAppended
    /\ rows[1].chars = <<"a", TAB, "b">>
    /\ cx = 2 /\ rx = 8

HasTab(chars) == \E i \in 1..Len(chars) : chars[i] = TAB

\* C8: editor_row_cx_to_rx is monotonic non-decreasing in cx over
\* [0, len(chars)], and is the identity on a row without a tab.
C8_Monotonic ==
    RowAppended =>
        /\ \A n1, n2 \in 0..Len(rows[1].chars) :
              n1 <= n2 =>
                editor_row_cx_to_rx(rows[1], n1) <= editor_row_cx_to_rx(rows[1], n2)
        /\ ~HasTab(rows[1].chars) => rx = cx

\* The end of a tab-free row of three characters was mapped.
C8_Witness ==
    /\ RowAppended
    /\ Len(rows[1].chars) = 3 /\ ~HasTab(rows[1].chars)
    /\ cx = 3 /\ rx = 3

\* C9: render is chars with each tab filled up to the next tab stop:
\* len(render) = editor_row_cx_to_rx(row, len(chars)), and the character at
\* cx, when not a tab, is render[editor_row_cx_to_rx(row, cx)].
C9_RenderDerivation ==
    RowAppended =>
        LET row == rows[1]
        IN  /\ Len(row.render) = editor_row_cx_to_rx(row, Len(row.chars))
            /\ \A n \in 0..(Len(row.chars) - 1) :
                  row.chars[n + 1] # TAB =>
                    row.render[editor_row_cx_to_rx(row, n) + 1] = row.chars[n + 1]

----------------------------------------------------------------------------
(* Properties of the other keys (Spec). *)

\* The key `name` was decoded and applied in this step.
KeyIs(name) == KeyApplied /\ rk'.ret.key.k = name

\* One turn of the loop of run() on the key `name`: the key is applied and
\* the next frame composed.
press(e, name) == editor_refresh_screen(apply_key(e, Key(name)), now).e

\* What C11 says of one HomeKey or EndKey.
HomeEndStep ==
    /\ KeyIs("HomeKey") => (cx' = 0 /\ cy' = cy)
    /\ (KeyIs("EndKey") /\ cy < Len(rows)) =>
           (cx' = Len(rows[cy + 1].chars) /\ cy' = cy)
    /\ (KeyIs("EndKey") /\ cy = Len(rows)) => (cx' = cx /\ cy' = cy)

\* ArrowDown from the last row, then EndKey: the cursor is past the last
\* row, in column 0.
EndPastLastRow ==
    (FrameComposed /\ cy + 1 = Len(rows)) =>
        LET e == press(press(Self, "ArrowDown"), "EndKey")
        IN  e.cy = Len(rows) /\ e.cx = 0

\* ArrowDown twice then EndKey from the start of a document of 3 lines.
EndOfThirdLine ==
    (FrameComposed /\ Len(rows) = 3 /\ cx = 0 /\ cy = 0) =>
        LET e == press(press(press(Self, "ArrowDown"), "ArrowDown"), "EndKey")
        IN  e.cy = 2 /\ e.cx = Len(rows[3].chars)

\* C11: HomeKey sets cx to 0 and EndKey sets cx to the length of the row
\* under the cursor, both leaving cy unchanged; past the last row, reached
\* by ArrowDown from the last row, EndKey leaves cx at 0; in a document of
\* 3 lines ArrowDown twice then EndKey from the start ends at cy = 2,
\* cx = the length of line 3.
C11_HomeEnd == [][HomeEndStep]_vars /\ [](EndPastLastRow /\ EndOfThirdLine)

\* EndKey has just moved the cursor to the end of the third line, which
\* holds a tab.
C11_Witness ==
    /\ pc = "refresh" /\ rk.at = "ret" /\ rk.ret.tag = "Ok"
    /\ rk.ret.key.k = "EndKey"
    /\ Len(rows) = 3 /\ cy = 2 /\ HasTab(rows[3].chars)
    /\ cx = Len(rows[3].chars)

----------------------------------------------------------------------------
(* Properties of the end of run() (Spec, SpecFair). *)

\* "\x1b[2J" then "\x1b[H"
ScreenClear == <<"ESC[2J", "ESC[H">>

\* run() has returned to main.
RunReturned == pc \in {"exit_ok", "main_err", "exit_err"}

\* The step that decodes Ctrl-Q (byte 0x11) leaves the loop: no field of
\* the editor changes and nothing is written.
QuitStep ==
    (KeyApplied /\ rk'.ret.key = Char(17)) =>
        (pc' = "quit" /\ UNCHANGED kilo /\ stdout' = << >>)

\* C12 as stated: the quit key ends the loop with no cursor transition and
\* no further frame, the screen clear is written whenever the loop was
\* left, and run then returns.
C12_QuitAsStated ==
    /\ [][QuitStep]_vars
    /\ [][pc = "quit" => stdout' = ScreenClear]_vars
    /\ (pc = "quit" ~> RunReturned)

\* What follows the quit key: clear_screen, and nothing else; run returns
\* Ok after the whole screen clear was written, and the error otherwise.
ClearStep ==
    pc = "quit" =>
        \/ pc' = "exit_ok" /\ stdout' = ScreenClear
        \/ pc' = "main_err" /\ stdout' = SubSeq(ScreenClear, 1, Len(stdout'))
                            /\ Len(stdout') < Len(ScreenClear)

\* C12: the quit key (byte 0x11) ends the loop with no cursor transition
\* and no further frame; the screen clear ESC[2J ESC[H is then written and
\* run returns Ok, unless a write of the clear fails, when run returns the
\* error; either way run returns once the quit key was decoded.
C12_Quit ==
    /\ [][QuitStep]_vars
    /\ [][ClearStep]_vars
    /\ (pc = "quit" ~> RunReturned)

\* run has returned Ok: the quit key was decoded and the screen clear
\* written.
C12_Witness == pc = "exit_ok" /\ stdout = ScreenClear

----------------------------------------------------------------------------
(* Raw mode (Spec). *)

\* run() is between enable_raw_mode and its end.
InRawMode == pc \in {"init", "open", "refresh", "keypress", "quit"}

\* run() was left: it returned Ok or Err, or a panic unwound it.
RunLeft == pc \in {"main_err", "exit_ok", "exit_err", "exit_panic"}

RestoreReported ==
    \E i \in 1..Len(stderr) : stderr[i] = "Unable to restore canonical mode"

\* C13: while run() is under way after enable_raw_mode the terminal is raw
\* and nothing was restored; on every way out of run() (Ok after the quit
\* key, Err from init_editor, editor_open, editor_refresh_screen,
\* editor_process_keypress or clear_screen, a panic) disable_raw_mode was
\* called exactly once, the original attributes are in force unless that
\* call failed, and then the failure was reported and main goes on to its
\* end.
C13_RawModeReleased ==
    /\ pc = "start" => (termios = "orig" /\ restores = 0)
    /\ InRawMode => (termios = "raw" /\ restores = 0)
    /\ RunLeft => (restores = 1 /\ (termios = "orig" \/ RestoreReported))
    /\ pc = "main_err" => ENABLED MainError

\* The restore failed after an error of run(): it was reported, and main
\* came to its end with the terminal still raw.
C13_Witness ==
    /\ pc = "exit_err" /\ restores = 1
    /\ termios = "raw" /\ RestoreReported

----------------------------------------------------------------------------
(* The terminal size at startup (Spec). *)

\* The ioctl gave no size: get_window_size has to probe.
ProbeNeeded(a) == a.ioctl = -1 \/ a.ws_row = 0 \/ a.ws_col = 0

Numeric(str) == str # << >> /\ \A i \in 1..Len(str) : is_digit(str[i])

\* The bytes are ESC [ rows ; cols R with numeric rows and cols.
IsReport(str) ==
    /\ Len(str) >= 6
    /\ str[1] = "ESC" /\ str[2] = "[" /\ str[Len(str)] = "R"
    /\ \E k \in 4..(Len(str) - 2) :
          /\ str[k] = ";"
          /\ Numeric(SubSeq(str, 3, k - 1))
          /\ Numeric(SubSeq(str, k + 1, Len(str) - 1))

\* The probe yields dimensions.
ProbeAnswered(a) == a.written /\ a.reply.tag = "Ok" /\ IsReport(a.reply.bytes)

\* What C14 says of the step that runs init_editor, `winsize'` being what
\* the terminal answered.
SizeStep ==
    pc = "init" =>
        /\ (ProbeNeeded(winsize') /\ winsize'.written) =>
               stdout' = <<"ESC[999C", "ESC[999B", "ESC[6n">>
        /\ ~ProbeNeeded(winsize') => stdout' = << >>
        /\ (ProbeNeeded(winsize') /\ ~ProbeAnswered(winsize')) => pc' = "main_err"
        /\ pc' = "open" =>
               \/ ~ProbeNeeded(winsize')
               \/ ProbeAnswered(winsize')

\* C14: when the ioctl fails or reports zero rows or columns,
\* get_window_size probes with ESC[999C ESC[999B and ESC[6n; when the probe
\* yields no dimensions too (a write or the read fails, or the reply is not
\* ESC [ rows ; cols R with numeric rows and cols) run returns an error
\* before any frame, and the loop is never entered on such an answer.
C14_ProbeFailureFatal == [][SizeStep]_vars

\* What does hold: a probe that cannot be written or read, or whose reply
\* is not UTF-8 or not framed by ESC [ and R, is a fatal error, and the
\* probe is written whenever the ioctl gave no size.
ProbeUnframedFatal ==
    [][pc = "init" =>
        LET a == winsize'
            str == a.reply.bytes
        IN  /\ (ProbeNeeded(a) /\ a.written) =>
                   stdout' = <<"ESC[999C", "ESC[999B", "ESC[6n">>
            /\ (ProbeNeeded(a) /\ (\/ ~a.written
                                   \/ a.reply.tag = "Err"
                                   \/ \E j \in 1..Len(str) : str[j] = "0xFF"
                                   \/ Len(str) < 3
                                   \/ str[1] # "ESC" \/ str[2] # "["
                                   \/ str[Len(str)] # "R")) => pc' = "main_err"]_vars

----------------------------------------------------------------------------
(* Frame composition (Spec). *)

\* editor_refresh_screen returned Ok in this step.
FrameStep == pc = "refresh" /\ pc' = "keypress"

\* The document, cursor, viewport and file name are as editor_scroll left
\* them.
FrameKeepsView ==
    LET s == editor_scroll(Self)
    IN  /\ rows' = s.rows /\ cx' = s.cx /\ cy' = s.cy /\ rx' = s.rx
        /\ rowoff' = s.rowoff /\ coloff' = s.coloff
        /\ screenrows' = s.screenrows /\ screencols' = s.screencols
        /\ filename' = s.filename

\* C15: what editor_refresh_screen does after editor_scroll changes no
\* field of the editor: document, cx, cy, rx, rowoff, coloff, file name,
\* status message text and time stamp are as editor_scroll left them, also
\* when the status message is longer than screencols.
C15_FramePure ==
    [][FrameStep =>
        /\ FrameKeepsView
        /\ statusmsg' = statusmsg
        /\ statusmsg_time' = statusmsg_time]_vars

\* What does hold: all but the text of the status message is unchanged, and
\* the text is cut to its first screencols characters.
FramePureButMessage ==
    [][FrameStep =>
        /\ FrameKeepsView
        /\ statusmsg' = truncate(statusmsg, screencols)
        /\ statusmsg_time' = statusmsg_time]_vars

----------------------------------------------------------------------------
(* Vertical movement (Spec). *)

Min(a, b) == IF a < b THEN a ELSE b
Max(a, b) == IF a > b THEN a ELSE b

\* The key `name` was applied and the loop goes on.
Moved(name) == KeyIs(name) /\ pc' = "refresh"

\* What C16 says of one PageUp or PageDown.
PageStep ==
    /\ Moved("PageUp") => cy' = Max(rowoff - screenrows, 0)
    /\ Moved("PageDown") => cy' = Min(rowoff + 2 * screenrows - 1, Len(rows))
    /\ (Moved("PageUp") \/ Moved("PageDown")) => cx' = Min(cx, RowLen(Self, cy'))

\* C16 as stated: PageUp ends at cy' = max(rowoff - screenrows, 0) and
\* PageDown at cy' = min(rowoff + 2*screenrows - 1, len(Document)); after
\* either cx' = min(cx, length of the row at cy'), 0 past the last row.
C16_PageMoveAsStated == [][PageStep]_vars

\* The rows the cursor is on after each of the screenrows moves of a page
\* key.
PassedUp == { Max(rowoff - i, 0) : i \in 1..screenrows }
PassedDown ==
    { Min(Min(rowoff + screenrows - 1, Len(rows)) + i, Len(rows)) : i \in 1..screenrows }

\* cx cut to the length of each of the rows `ys`.
CutTo(ys) ==
    LET lens == {cx} \cup { RowLen(Self, y) : y \in ys }
    IN  CHOOSE m \in lens : \A l \in lens : m <= l

\* C16: PageUp ends at cy' = max(rowoff - screenrows, 0) and PageDown at
\* cy' = min(rowoff + 2*screenrows - 1, len(Document)); cx is cut to the
\* length of every row the cursor is on after one of the screenrows moves
\* (0 past the last row), not only to that of the row at cy'.
C16_PageMove ==
    [][/\ Moved("PageUp") =>
            (cy' = Max(rowoff - screenrows, 0) /\ cx' = CutTo(PassedUp))
       /\ Moved("PageDown") =>
            (cy' = Min(rowoff + 2 * screenrows - 1, Len(rows)) /\ cx' = CutTo(PassedDown))]_vars

\* PageUp has taken the cursor from a window scrolled down to the start of
\* row 0, which is not empty.
C16_Witness ==
    /\ pc = "refresh" /\ rk.at = "ret" /\ rk.ret.tag = "Ok"
    /\ rk.ret.key.k = "PageUp"
    /\ screenrows >= 1 /\ rowoff > 0 /\ cy = 0
    /\ cx = 0 /\ RowLen(Self, 0) > 0

\* What C17 says of one ArrowUp or ArrowDown.
VerticalStep ==
    /\ Moved("ArrowUp") => cy' = Max(cy - 1, 0)
    /\ Moved("ArrowDown") => cy' = Min(cy + 1, Len(rows))
    /\ (Moved("ArrowUp") \/ Moved("ArrowDown")) =>
          /\ cy' < Len(rows) => cx' = Min(cx, Len(rows[cy' + 1].chars))
          /\ cy' = Len(rows) => cx' = 0
          /\ rowoff' = rowoff /\ coloff' = coloff

\* C17: ArrowUp sets cy' = max(cy - 1, 0) and ArrowDown
\* cy' = min(cy + 1, len(Document)); after either cx' = min(cx, length of
\* the row at cy') on a row and 0 past the last row; neither changes rowoff
\* or coloff.
C17_VerticalMove == [][VerticalStep]_vars

\* The same from a legal cursor.
VerticalMoveLegal == [][CursorLegal => VerticalStep]_vars

----------------------------------------------------------------------------
(* Scrolling (Spec). *)

\* What C18 says of the offsets editor_scroll leaves in `s` when it starts
\* from `e`; the column is the one editor_scroll has just computed.
MinimalScroll(e, s) ==
    /\ (e.rowoff <= e.cy /\ e.cy < e.rowoff + e.screenrows) => s.rowoff = e.rowoff
    /\ e.cy < e.rowoff => s.rowoff = e.cy
    /\ e.cy >= e.rowoff + e.screenrows => s.rowoff = e.cy - e.screenrows + 1
    /\ (e.coloff <= s.rx /\ s.rx < e.coloff + e.screencols) => s.coloff = e.coloff
    /\ s.rx < e.coloff => s.coloff = s.rx
    /\ s.rx >= e.coloff + e.screencols => s.coloff = s.rx - e.screencols + 1

\* editor_scroll applied to its own result changes no offset.
ScrollTwice(s) ==
    LET t == editor_scroll(s)
    IN  t.rowoff = s.rowoff /\ t.coloff = s.coloff /\ t.rx = s.rx

\* C18: at every frame editor_scroll leaves rowoff (coloff) unchanged when
\* the cursor row (column) is inside the window, and otherwise moves it to
\* the nearest edge: rowoff' = cy above the window and cy - screenrows + 1
\* below it, coloff' = rx left of it and rx - screencols + 1 right of it;
\* applied twice it gives the offsets it gives applied once.
C18_MinimalScroll ==
    [][FrameStep =>
        /\ MinimalScroll(Self, editor_scroll(Self))
        /\ ScrollTwice(editor_scroll(Self))
        /\ rowoff' = editor_scroll(Self).rowoff
        /\ coloff' = editor_scroll(Self).coloff]_vars

\* The same on a terminal of at least 3 rows and 1 column.
MinimalScrollOrdinary ==
    [][(FrameStep /\ screenrows \in 1..MaxWinRows /\ screencols >= 1) =>
        /\ MinimalScroll(Self, editor_scroll(Self))
        /\ ScrollTwice(editor_scroll(Self))
        /\ rowoff' = editor_scroll(Self).rowoff
        /\ coloff' = editor_scroll(Self).coloff]_vars

\* Applied twice editor_scroll gives what it gives applied once, on every
\* terminal.
ScrollIdempotent == [][FrameStep => ScrollTwice(editor_scroll(Self))]_vars

----------------------------------------------------------------------------
(* The rows of the frame (Spec). *)

\* The screen rows that show a row of the document.
VisibleRows == { y \in 0..(screenrows - 1) : y + rowoff < Len(rows) }

\* render of the document row under screen row y
RenderAt(y) == rows[y + rowoff + 1].render

\* n = min(screencols, max(0, len(render) - coloff))
SliceLen(render) == Min(screencols, Max(0, Len(render) - coloff))

\* The rows of the frame, with render[coloff .. coloff + n] for the rows of
\* the document.
RECURSIVE SlicedRows(_)
SlicedRows(y) ==
    IF y >= screenrows THEN << >>
    ELSE (IF y \in VisibleRows
          THEN SubSeq(RenderAt(y), coloff + 1, coloff + SliceLen(RenderAt(y)))
          ELSE draw_row(Self, y).text)
         \o <<"ESC[K", "CRLF">> \o SlicedRows(y + 1)

\* C19: in every state editor_draw_rows emits, for every screen row that
\* shows a row of the document, exactly render[coloff .. coloff + n] with
\* n = min(screencols, max(0, len(render) - coloff)), without an index out
\* of range; the slice is empty when coloff >= len(render); and the frame
\* written holds these slices.
C19_RowSlice ==
    draw_rows_fits(Self) =>
        /\ \A y \in VisibleRows :
              LET d == draw_row(Self, y)
              IN  /\ ~d.oob
                  /\ d.text = SubSeq(RenderAt(y), coloff + 1,
                                     coloff + SliceLen(RenderAt(y)))
                  /\ coloff >= Len(RenderAt(y)) => d.text = << >>
        /\ ~editor_draw_rows([e |-> Self, buffer |-> << >>]).e.oob
        /\ FrameComposed =>
              SubSeq(stdout, 3, 2 + Len(SlicedRows(0))) = SlicedRows(0)

\* A frame shows a row that lies wholly left of the window and a row that
\* goes on past its right edge.
C19_Witness ==
    /\ FrameComposed /\ screencols >= 1
    /\ \E y \in VisibleRows :
          Len(RenderAt(y)) > 0 /\ coloff >= Len(RenderAt(y))
    /\ \E y \in VisibleRows : Len(RenderAt(y)) - coloff > screencols

----------------------------------------------------------------------------
(* usize arithmetic (Spec). *)

\* The size init_editor is given in this step, if get_window_size returns
\* one.
SizeGiven == pc = "init" /\ get_window_size(winsize').tag = "Ok"

\* No usize operation of the call made in this step passes 0 or the
\* largest usize: rows - 2 in init_editor; cy - screenrows + 1,
\* rx - screencols + 1, cy - rowoff and rx - coloff in
\* editor_refresh_screen; rowoff + screenrows - 1 in
\* editor_process_keypress.
NoUnderflowStep ==
    /\ SizeGiven => ~init_editor(Self, get_window_size(winsize').size).ovf
    /\ (pc = "refresh" /\ draw_rows_fits(Self)) =>
           ~editor_refresh_screen(Self, now).e.ovf
    /\ KeyApplied => ~apply_key(Self, rk'.ret.key).ovf

\* C20: for every size get_window_size returns, fewer than 3 rows and a 0
\* parsed from a probe reply included, and every sequence of keys, no usize
\* subtraction underflows: rows - 2, cy - screenrows + 1,
\* rx - screencols + 1, rowoff + screenrows - 1, cy - rowoff, rx - coloff.
C20_NoUnderflow == [][NoUnderflowStep]_vars

\* The same on a terminal of at least 3 rows and 1 column.
NoUnderflowOrdinary ==
    [][/\ (SizeGiven /\ get_window_size(winsize').size[1] >= 3) =>
              ~init_editor(Self, get_window_size(winsize').size).ovf
       /\ (screenrows \in 1..MaxWinRows /\ screencols >= 1) =>
              /\ pc = "refresh" => ~editor_refresh_screen(Self, now).e.ovf
              /\ KeyApplied => ~apply_key(Self, rk'.ret.key).ovf]_vars

====
